---- MODULE Spec2Model ----
(***************************************************************************)
(* Model of the e-commerce chat agent: src/server/agent.ts (retryWithBackoff, *)
(* callAgent with its itemLookupTool, callModel, shouldContinue and the     *)
(* agent/tools state graph with its MongoDB checkpointer) and               *)
(* src/server/index.ts (the two POST routes).                               *)
(***************************************************************************)
EXTENDS Integers, Sequences, FiniteSets, TLC

(* ------------------------------ bounds --------------------------------- *)
\* tool rounds the model may ask for in one turn of Spec
MaxRounds == 1
\* external-call failures injected into the item lookup tool per behaviour
MaxToolFaults == 1
\* largest maxRetries argument tried in RetrySpec
MaxRetriesBound == 7
\* calls of the item lookup tool made by the ToolSpec driver
MaxToolCalls == 2

(* -------------------------- program constants -------------------------- *)
DefaultMaxRetries == 3
BaseDelay == 1000
MaxDelay == 30000
DefaultN == 10
RecursionLimit == 15

\* the requests of a behaviour: a first one and a later one
Turns == {1, 2}

\* the numbers of tool-invocation requests a reply of the model may carry
CallCounts == {0, 1, 2}

(* ------------------------------ helpers -------------------------------- *)
Min(a, b) == IF a <= b THEN a ELSE b

Last(s) == s[Len(s)]

IsPrefix(s, t) == Len(s) <= Len(t) /\ SubSeq(t, 1, Len(s)) = s

Take(s, n) == SubSeq(s, 1, Min(n, Len(s)))

RECURSIVE SortedIds(_)
\* the ids of a set of documents, in ascending order
SortedIds(S) ==
    IF S = {} THEN <<>>
    ELSE LET m == CHOOSE x \in S : \A y \in S : x <= y
         IN <<m>> \o SortedIds(S \ {m})

(* --------------------------- inventory store --------------------------- *)
\* the documents the external collection may hold: an id, whether the vector
\* index holds an embedding for it, and the query words its text fields match
DocUniverse ==
    { [id |-> 1, indexed |-> TRUE,  words |-> {"chair"}],
      [id |-> 2, indexed |-> TRUE,  words |-> {"desk"}],
      [id |-> 3, indexed |-> FALSE, words |-> {"desk"}] }

Stores == SUBSET DocUniverse

Queries == {"chair", "desk"}

Ns == {1, DefaultN}

\* similaritySearchVectorWithScore(queryEmbedding, n): the n nearest indexed
\* documents (nearest first, here by id), whatever the words of the query
SimilaritySearch(docs, n) ==
    Take(SortedIds({d.id : d \in {x \in docs : x.indexed}}), n)

\* find({$or: [four fields $regex query, $options i]}).limit(n).toArray()
TextSearch(docs, query, n) ==
    Take(SortedIds({d.id : d \in {x \in docs : query \in x.words}}), n)

\* collection.countDocuments({})
CountDocuments(docs) == Cardinality(docs)

(* ------------------------------- errors -------------------------------- *)
\* a thrown value: its status marker ("none" when it has no status field)
\* and its message
Err(status, message) == [status |-> status, message |-> message]

RateLimitErr == Err("429", "rate limited")
AuthErr      == Err("401", "unauthorized")
PlainErr     == Err("none", "model unreachable")
ModelErrors  == {RateLimitErr, AuthErr, PlainErr}

\* the external calls of the item lookup tool that may fail
ToolPoints == {"countDocuments", "sample", "embedQuery", "similaritySearch", "textSearch"}
ToolErr(point) == Err("none", point)

NoErr == Err("none", "")

(* -------------------------- retryWithBackoff --------------------------- *)
\* a loop that also runs the attempt numbered maxRetries
LoopCondInclusive(att, maxR) == att <= maxR

\* for(let attempt=1 ; attempt<maxRetries ; attempt++)
LoopCond(att, maxR) == att < maxR

\* a catch block that retries whatever the error is
ShouldRetryAnyError(error, att, maxR) == att < maxR

\* status === 429 && attempt < maxRetries
ShouldRetry(error, att, maxR) == error.status = "429" /\ att < maxR

\* a delay without the 30000 cap
DelayUncapped(att) == BaseDelay * 2^att

\* Math.min(1000*Math.pow(2,attempt),30000)
Delay(att) == Min(BaseDelay * 2^att, MaxDelay)

\* throw new Error("max retries execceded")
ExhaustedErr == Err("none", "max retries execceded")

(* --------------------------- itemLookupTool ---------------------------- *)
EmptyPayload ==
    [error |-> "No items found in inventory",
     message |-> "the inventory databse appears to be empty",
     count |-> 0]

ResultPayload(results, searchType, query) ==
    [results |-> results, searchType |-> searchType,
     query |-> query, count |-> Len(results)]

\* the return of the vector path (lines 120-125)
VectorPayload(result, query) == ResultPayload(result, "vector", query)

\* a text fallback that tags its results as vector results
TextPayloadMistagged(textResult, query) == ResultPayload(textResult, "vector", query)

\* the return of the text fallback (lines 111-116)
TextPayload(textResult, query) == ResultPayload(textResult, "text", query)

FailurePayload(error, query) ==
    [error |-> "failed to search inventory",
     details |-> error.message, query |-> query]

\* an empty-collection test that never holds
IsEmptyStoreNever(totalCount) == FALSE

\* if(totalCount === 0)
IsEmptyStore(totalCount) == totalCount = 0

\* a fallback that runs the text search whatever the vector search returned
NeedsTextFallbackAlways(result) == TRUE

\* if(result.length === 0)
NeedsTextFallback(result) == Len(result) = 0

\* what a call of the tool function hands to its caller: a returned payload,
\* or an exception that escapes it
Returned(payload) == [kind |-> "return", payload |-> payload]
Raised(error)     == [kind |-> "raise", error |-> error]

\* a tool function whose catch block rethrows
ToolCatchRethrows(error, query) == Raised(error)

\* the catch block of the tool function: every failure becomes a payload
ToolCatch(error, query) == Returned(FailurePayload(error, query))

\* ToolNode: the content of the tool-result message made from a tool's outcome
\* (an exception that escapes a tool is turned into an error text by ToolNode)
ToolContent(out) ==
    IF out.kind = "return" THEN out.payload
    ELSE [toolError |-> out.error.message]

(* ------------------------------ messages ------------------------------- *)
\* role, the turn that appended it, the number of tool-invocation requests it
\* carries (assistant), the request it answers (tool result), its content
Msg(role, t, calls, call, content) ==
    [role |-> role, turn |-> t, calls |-> calls, call |-> call, content |-> content]

HumanMessage(t, text) == Msg("human", t, 0, 0, [text |-> text])
AIMessage(t, calls)   == Msg("ai", t, calls, 0, [text |-> "reply"])
ToolMessage(t, call, content) == Msg("tool", t, 0, call, content)

\* a reducer that replaces the channel by the update
ReducerReplaces(x, y) == y

\* reducer : (x,y) => x.concat(y)
Reducer(x, y) == x \o y

\* a ToolNode that runs only the first of the requested calls
PendingCallsFirstOnly(msgs) == Min(1, Last(msgs).calls)

\* ToolNode: the tool calls to run are all the tool_calls of the last message
PendingCalls(msgs) == Last(msgs).calls

\* a router that sends every reply to the tools node
ShouldContinueAlways(msgs) == "tools"

\* shouldContinue: lastMessage.tool_calls?.length ? "tools" : "__end__"
ShouldContinue(msgs) ==
    IF Last(msgs).calls > 0 THEN "tools" ELSE "__end__"

\* the catch block of callAgent: the error thrown to the HTTP handler
MapError(error) ==
    IF error.status = "429" THEN "rate_limit"
    ELSE IF error.status = "401" THEN "auth"
    ELSE "agent_failed"

(* ------------------------------- state --------------------------------- *)
VARIABLES
    driver,      \* what runs: "server", or a driver of one function ("retry", "tool")
    store,       \* the documents of the items collection (never written by the program)
    now,         \* the clock read by Date.now()
    ckpts,       \* the checkpoint documents written by MongoDBSaver
    maxRetries,  \* the maxRetries argument of retryWithBackoff
    cap,         \* what the environment does at most: requests that arrive,
                 \* tool rounds and tool calls the model asks for, its queries,
                 \* failures of the tool's external calls
    overlap,     \* whether a request may arrive while another is being handled
    faults,      \* failures injected into the tool's external calls so far
    pc,          \* per turn: where its request handler stands
    entry,       \* per turn: the route its request came in by
    thread,      \* per turn: threadId
    body,        \* per turn: req.body.message
    messages,    \* per turn: the messages channel of the running graph
    step,        \* per turn: the superstep counter of the graph loop
    stop,        \* per turn: the superstep at which the loop gives up
    route,       \* per turn: the edge last taken out of the agent node
    attempt,     \* per turn: retryWithBackoff's loop variable
    waits,       \* per turn: the delays slept in the current retryWithBackoff call
    outcomes,    \* per turn: the outcome of each execution of fn in that call
    rres,        \* per turn: what the retryWithBackoff call returned or threw
    reply,       \* per turn: tool-invocation requests of the model's reply
    callsLeft,   \* per turn: tool calls of the current Tools step still to run
    toolOut,     \* per turn: tool-result messages made in the current Tools step
    targs,       \* per turn: {query, n} of the running tool call
    tcalls,      \* per turn: external calls made by the running tool call
    simRes,      \* per turn: what the similarity search of the running call returned
    lastFault,   \* per turn: the external call that failed in the last tool call
    caught,      \* per turn: the error caught by callAgent's catch block
    outcome,     \* per turn: how callAgent ended
    response     \* per turn: the HTTP response sent

envVars   == <<driver, store, maxRetries, cap, overlap>>
reqVars   == <<entry, thread, body, caught, outcome, response, now>>
graphVars == <<messages, step, stop, route, ckpts>>
retryVars == <<attempt, waits, outcomes, rres, reply>>
toolVars  == <<callsLeft, toolOut, targs, tcalls, simRes, lastFault, faults>>
vars == <<envVars, reqVars, graphVars, retryVars, toolVars, pc>>

\* req.body.message: a text, the empty text, or no message at all
Bodies ==
    { [isString |-> TRUE, text |-> "red chairs"],
      [isString |-> TRUE, text |-> ""],
      [isString |-> FALSE, text |-> ""] }

\* unless a specification narrows them, a request carries any of the bodies
\* and a model call fails with any of the model errors
Cap(turns, rounds, calls, queries, ns, toolFaults) ==
    [turns |-> turns, rounds |-> rounds, calls |-> calls,
     queries |-> queries, ns |-> ns, faults |-> toolFaults,
     bodies |-> Bodies, errors |-> ModelErrors]

NoCalls == [embed |-> 0, sim |-> 0, text |-> 0]
NoSim   == [done |-> FALSE, hits |-> <<>>]
NoArgs  == [query |-> "", n |-> DefaultN]
Running == [kind |-> "running", error |-> NoErr]

\* every per-turn variable at its value before the request arrives, but for
\* turn 1 standing at pc1 with calls1 tool calls to run
InitTurns(pc1, calls1) ==
    /\ pc = [t \in Turns |-> IF t = 1 THEN pc1 ELSE "idle"]
    /\ callsLeft = [t \in Turns |-> IF t = 1 THEN calls1 ELSE 0]
    /\ entry = [t \in Turns |-> "none"]
    /\ thread = [t \in Turns |-> ""]
    /\ body = [t \in Turns |-> [isString |-> FALSE, text |-> ""]]
    /\ messages = [t \in Turns |-> <<>>]
    /\ step = [t \in Turns |-> 0]
    /\ stop = [t \in Turns |-> 0]
    /\ route = [t \in Turns |-> "none"]
    /\ attempt = [t \in Turns |-> 1]
    /\ waits = [t \in Turns |-> <<>>]
    /\ outcomes = [t \in Turns |-> <<>>]
    /\ rres = [t \in Turns |-> Running]
    /\ reply = [t \in Turns |-> 0]
    /\ toolOut = [t \in Turns |-> <<>>]
    /\ targs = [t \in Turns |-> NoArgs]
    /\ tcalls = [t \in Turns |-> NoCalls]
    /\ simRes = [t \in Turns |-> NoSim]
    /\ lastFault = [t \in Turns |-> "none"]
    /\ caught = [t \in Turns |-> NoErr]
    /\ outcome = [t \in Turns |-> "none"]
    /\ response = [t \in Turns |-> "none"]

(* ---------------------- retryWithBackoff, stepwise --------------------- *)
\* number of tool rounds turn t has asked for so far
Rounds(t) ==
    Cardinality({i \in 1..Len(messages[t]) :
        messages[t][i].turn = t /\ messages[t][i].role = "ai" /\ messages[t][i].calls > 0})

\* the loop head: test attempt<maxRetries; past the loop, throw
RetryLoop(t) ==
    /\ pc[t] = "retry"
    /\ IF LoopCond(attempt[t], maxRetries)
       THEN /\ pc' = [pc EXCEPT ![t] = "fn"]
            /\ rres' = rres
       ELSE /\ pc' = [pc EXCEPT ![t] = "r_ret"]
            /\ rres' = [rres EXCEPT ![t] = Raised(ExhaustedErr)]
    /\ UNCHANGED <<envVars, reqVars, graphVars, toolVars, attempt, waits, outcomes, reply>>

\* try { return await fn() }: fn returns the model's reply
FnReturns(t) ==
    /\ pc[t] = "fn"
    /\ \E c \in CallCounts :
        /\ c <= cap.calls
        /\ c > 0 => Rounds(t) < cap.rounds
        /\ reply' = [reply EXCEPT ![t] = c]
    /\ outcomes' = [outcomes EXCEPT ![t] = Append(@, "ok")]
    /\ rres' = [rres EXCEPT ![t] = [kind |-> "return", error |-> NoErr]]
    /\ pc' = [pc EXCEPT ![t] = "r_ret"]
    /\ UNCHANGED <<envVars, reqVars, graphVars, toolVars, attempt, waits>>

\* catch(error): a rate-limit error with attempts left starts the backoff
\* sleep, any other error is rethrown
FnThrows(t) ==
    /\ pc[t] = "fn"
    /\ \E e \in cap.errors :
        /\ outcomes' = [outcomes EXCEPT ![t] = Append(@, e.status)]
        /\ IF ShouldRetry(e, attempt[t], maxRetries)
           THEN /\ waits' = [waits EXCEPT ![t] = Append(@, Delay(attempt[t]))]
                /\ pc' = [pc EXCEPT ![t] = "wait"]
                /\ rres' = rres
           ELSE /\ waits' = waits
                /\ pc' = [pc EXCEPT ![t] = "r_ret"]
                /\ rres' = [rres EXCEPT ![t] = Raised(e)]
    /\ UNCHANGED <<envVars, reqVars, graphVars, toolVars, attempt, reply>>

\* the setTimeout fires; continue runs attempt++
BackoffWait(t) ==
    /\ pc[t] = "wait"
    /\ attempt' = [attempt EXCEPT ![t] = @ + 1]
    /\ pc' = [pc EXCEPT ![t] = "retry"]
    /\ UNCHANGED <<envVars, reqVars, graphVars, toolVars, waits, outcomes, rres, reply>>

RetryStep(t) == RetryLoop(t) \/ FnReturns(t) \/ FnThrows(t) \/ BackoffWait(t)

\* retryWithBackoff called once on its own, with any maxRetries
RetryInit ==
    /\ driver = "retry"
    /\ store = {}
    /\ now = 0
    /\ ckpts = {}
    /\ maxRetries \in 1..MaxRetriesBound
    /\ cap = Cap(1, 1, 2, Queries, Ns, MaxToolFaults)
    /\ overlap = FALSE
    /\ faults = 0
    /\ InitTurns("retry", 0)

RetryNext == \E t \in Turns : RetryStep(t)

RetrySpec == RetryInit /\ [][RetryNext]_vars /\ WF_vars(RetryNext)

(* ----------------------- itemLookupTool, stepwise ---------------------- *)
\* the tool call ends: ToolNode makes the tool-result message of its outcome
ToolFinish(t, out, fault) ==
    /\ toolOut' = [toolOut EXCEPT ![t] =
                      Append(@, ToolMessage(t, Len(@) + 1, ToolContent(out)))]
    /\ callsLeft' = [callsLeft EXCEPT ![t] = @ - 1]
    /\ lastFault' = [lastFault EXCEPT ![t] = fault]
    /\ faults' = IF fault = "none" THEN faults ELSE faults + 1
    /\ pc' = [pc EXCEPT ![t] = "tools"]

\* the external call `point` of the running tool call throws
ToolFails(t, point) ==
    /\ faults < cap.faults
    /\ ToolFinish(t, ToolCatch(ToolErr(point), targs[t].query), point)

\* the running tool call goes on to its next external call
ToolGoes(t, next) ==
    /\ pc' = [pc EXCEPT ![t] = next]
    /\ UNCHANGED <<callsLeft, toolOut, lastFault, faults>>

\* ToolNode starts the next pending tool call with the arguments the model
\* gave it: {query, n = 10}
ToolDispatch(t) ==
    /\ pc[t] = "tools"
    /\ callsLeft[t] > 0
    /\ \E q \in cap.queries, n \in cap.ns : targs' = [targs EXCEPT ![t] = [query |-> q, n |-> n]]
    /\ tcalls' = [tcalls EXCEPT ![t] = NoCalls]
    /\ simRes' = [simRes EXCEPT ![t] = NoSim]
    /\ lastFault' = [lastFault EXCEPT ![t] = "none"]
    /\ pc' = [pc EXCEPT ![t] = "t_count"]
    /\ UNCHANGED <<envVars, reqVars, graphVars, retryVars, callsLeft, toolOut, faults>>

\* collection.countDocuments({}) and the empty-collection return
ToolCount(t) ==
    /\ pc[t] = "t_count"
    /\ \/ ToolFails(t, "countDocuments")
       \/ IF IsEmptyStore(CountDocuments(store))
          THEN ToolFinish(t, Returned(EmptyPayload), "none")
          ELSE ToolGoes(t, "t_sample")
    /\ UNCHANGED <<envVars, reqVars, graphVars, retryVars, targs, tcalls, simRes>>

\* collection.find({}).limit(3).toArray()
ToolSample(t) ==
    /\ pc[t] = "t_sample"
    /\ \/ ToolFails(t, "sample")
       \/ ToolGoes(t, "t_embed")
    /\ UNCHANGED <<envVars, reqVars, graphVars, retryVars, targs, tcalls, simRes>>

\* vectorStore.embeddings.embedQuery(query)
ToolEmbed(t) ==
    /\ pc[t] = "t_embed"
    /\ tcalls' = [tcalls EXCEPT ![t].embed = @ + 1]
    /\ \/ ToolFails(t, "embedQuery")
       \/ ToolGoes(t, "t_sim")
    /\ UNCHANGED <<envVars, reqVars, graphVars, retryVars, targs, simRes>>

\* similaritySearchVectorWithScore(queryEmbedding, n) and the vector return
ToolSimilarity(t) ==
    /\ pc[t] = "t_sim"
    /\ tcalls' = [tcalls EXCEPT ![t].sim = @ + 1]
    /\ \/ /\ ToolFails(t, "similaritySearch")
          /\ simRes' = simRes
       \/ LET result == SimilaritySearch(store, targs[t].n)
          IN /\ simRes' = [simRes EXCEPT ![t] = [done |-> TRUE, hits |-> result]]
             /\ IF NeedsTextFallback(result)
                THEN ToolGoes(t, "t_text")
                ELSE ToolFinish(t, Returned(VectorPayload(result, targs[t].query)), "none")
    /\ UNCHANGED <<envVars, reqVars, graphVars, retryVars, targs>>

\* the $regex find over four fields, .limit(n), and the text return
ToolText(t) ==
    /\ pc[t] = "t_text"
    /\ tcalls' = [tcalls EXCEPT ![t].text = @ + 1]
    /\ \/ ToolFails(t, "textSearch")
       \/ LET textResult == TextSearch(store, targs[t].query, targs[t].n)
          IN ToolFinish(t, Returned(TextPayload(textResult, targs[t].query)), "none")
    /\ UNCHANGED <<envVars, reqVars, graphVars, retryVars, targs, simRes>>

ToolStep(t) ==
    ToolDispatch(t) \/ ToolCount(t) \/ ToolSample(t) \/ ToolEmbed(t)
        \/ ToolSimilarity(t) \/ ToolText(t)

\* the item lookup tool called MaxToolCalls times against one store
ToolInit ==
    /\ driver = "tool"
    /\ store \in Stores
    /\ now = 0
    /\ ckpts = {}
    /\ maxRetries = DefaultMaxRetries
    /\ cap = Cap(1, 1, 2, Queries, Ns, MaxToolFaults)
    /\ overlap = FALSE
    /\ faults = 0
    /\ InitTurns("tools", MaxToolCalls)

ToolNext == \E t \in Turns : ToolStep(t)

ToolSpec == ToolInit /\ [][ToolNext]_vars

(* --------------------------- checkpoint store -------------------------- *)
\* a put whose checkpoint ids do not grow with time
PutStaleId(th, msgs, st) ==
    ckpts \cup {[thread |-> th, id |-> 0 - Cardinality(ckpts),
                 messages |-> msgs, step |-> st]}

\* MongoDBSaver.put: one more checkpoint document of the thread, with a fresh
\* time-ordered checkpoint id
Put(th, msgs, st) ==
    ckpts \cup {[thread |-> th, id |-> Cardinality(ckpts) + 1,
                 messages |-> msgs, step |-> st]}

\* a getTuple that sorts the wrong way and returns the oldest document
GetTupleOldest(th) ==
    LET mine == {c \in ckpts : c.thread = th}
    IN IF mine = {} THEN [thread |-> th, id |-> 0, messages |-> <<>>, step |-> -2]
       ELSE CHOOSE c \in mine : \A d \in mine : c.id <= d.id

\* a getTuple whose query leaves out the thread
GetTupleAnyThread(th) ==
    IF ckpts = {} THEN [thread |-> th, id |-> 0, messages |-> <<>>, step |-> -2]
    ELSE CHOOSE c \in ckpts : \A d \in ckpts : d.id <= c.id

\* MongoDBSaver.getTuple without a checkpoint id: the document of the thread
\* with the greatest checkpoint id, or the empty checkpoint
GetTuple(th) ==
    LET mine == {c \in ckpts : c.thread = th}
    IN IF mine = {} THEN [thread |-> th, id |-> 0, messages |-> <<>>, step |-> -2]
       ELSE CHOOSE c \in mine : \A d \in mine : d.id <= c.id

(* ------------------------------ HTTP routes ---------------------------- *)
\* thread identifiers a caller puts in the URL of POST /chat/:threadId
UrlThreads == {"1"}

Finished(t) == pc[t] = "done"

\* turn t's request may arrive now
MayArrive(t) ==
    /\ driver = "server"
    /\ pc[t] = "idle"
    /\ t <= cap.turns
    /\ \A u \in Turns : u < t => pc[u] # "idle"
    /\ overlap \/ \A u \in Turns : u # t => pc[u] \in {"idle", "done"}

\* callAgent throws: its catch block maps the error, and the catch block of the
\* route sets status 500 without sending anything
TurnFails(t, error) ==
    /\ caught' = [caught EXCEPT ![t] = error]
    /\ outcome' = [outcome EXCEPT ![t] = MapError(error)]
    /\ response' = [response EXCEPT ![t] = "none"]
    /\ pc' = [pc EXCEPT ![t] = "done"]

\* callAgent returns the content of the last message; the route sends it
TurnReplies(t) ==
    /\ caught' = caught
    /\ outcome' = [outcome EXCEPT ![t] = "reply"]
    /\ response' = [response EXCEPT ![t] = "200"]
    /\ pc' = [pc EXCEPT ![t] = "done"]

\* POST /chat: threadId = Date.now().toString(), no validation of the message
PostChat(t) ==
    /\ MayArrive(t)
    /\ \E b \in cap.bodies, d \in 0..1 :
        /\ now' = now + d
        /\ thread' = [thread EXCEPT ![t] = ToString(now')]
        /\ body' = [body EXCEPT ![t] = b]
    /\ entry' = [entry EXCEPT ![t] = "POST /chat"]
    /\ pc' = [pc EXCEPT ![t] = "callAgent"]
    /\ UNCHANGED <<envVars, graphVars, retryVars, toolVars, caught, outcome, response>>

\* POST /chat/:threadId: 400 unless the message is a string
PostChatThread(t) ==
    /\ MayArrive(t)
    /\ entry' = [entry EXCEPT ![t] = "POST /chat/:threadId"]
    /\ \E b \in cap.bodies, th \in UrlThreads :
        /\ thread' = [thread EXCEPT ![t] = th]
        /\ body' = [body EXCEPT ![t] = b]
        /\ IF ~b.isString
           THEN /\ response' = [response EXCEPT ![t] = "400"]
                /\ pc' = [pc EXCEPT ![t] = "done"]
           ELSE /\ response' = response
                /\ pc' = [pc EXCEPT ![t] = "callAgent"]
    /\ UNCHANGED <<envVars, graphVars, retryVars, toolVars, caught, outcome, now>>

(* ------------------------------ callAgent ------------------------------ *)
DbErr == Err("none", "createCollection failed")
TypeErr == Err("none", "cannot read properties of undefined")
RecursionErr == Err("none", "Recursion limit of 15 reached")

\* await db.createCollection("items"), then the synchronous set-up up to the
\* construction of new HumanMessage(query)
CreateCollection(t) ==
    /\ pc[t] = "callAgent"
    /\ \/ TurnFails(t, DbErr)
       \/ IF body[t].isString
          THEN /\ pc' = [pc EXCEPT ![t] = "load"]
               /\ UNCHANGED <<caught, outcome, response>>
          ELSE TurnFails(t, TypeErr)
    /\ UNCHANGED <<envVars, graphVars, retryVars, toolVars, entry, thread, body, now>>

\* a loop that takes twice the recursion limit as its budget
StepBudgetDoubled(first) == first + 2 * RecursionLimit + 1

\* recursionLimit: 15: the superstep after which the loop stops, for a loop
\* whose first superstep (the input's) is `first`
StepBudget(first) == first + RecursionLimit + 1

\* app.invoke: the loop loads the thread's latest checkpoint and sets its
\* step budget from recursionLimit
GraphLoad(t) ==
    /\ pc[t] = "load"
    /\ LET saved == GetTuple(thread[t])
       IN /\ messages' = [messages EXCEPT ![t] = saved.messages]
          /\ step' = [step EXCEPT ![t] = saved.step + 1]
          /\ stop' = [stop EXCEPT ![t] = StepBudget(saved.step + 1)]
    /\ pc' = [pc EXCEPT ![t] = "input"]
    /\ UNCHANGED <<envVars, reqVars, retryVars, toolVars, route, ckpts>>

\* the input is written to the start channel and the input checkpoint is saved
PutInput(t) ==
    /\ pc[t] = "input"
    /\ ckpts' = Put(thread[t], messages[t], step[t])
    /\ step' = [step EXCEPT ![t] = @ + 1]
    /\ pc' = [pc EXCEPT ![t] = "start"]
    /\ UNCHANGED <<envVars, reqVars, retryVars, toolVars, messages, stop, route>>

\* the locals of a retryWithBackoff call at its start (attempt = 1), which is
\* also how a finished call leaves them
EnterAgent(t) ==
    /\ attempt' = [attempt EXCEPT ![t] = 1]
    /\ waits' = [waits EXCEPT ![t] = <<>>]
    /\ outcomes' = [outcomes EXCEPT ![t] = <<>>]
    /\ rres' = [rres EXCEPT ![t] = Running]
    /\ reply' = [reply EXCEPT ![t] = 0]

\* the superstep of the start node: the user message joins the messages
\* channel through the reducer, the checkpoint is saved, the agent node is next
StartNode(t) ==
    /\ pc[t] = "start"
    /\ messages' = [messages EXCEPT ![t] = Reducer(@, <<HumanMessage(t, body[t].text)>>)]
    /\ ckpts' = Put(thread[t], messages'[t], step[t])
    /\ step' = [step EXCEPT ![t] = @ + 1]
    /\ EnterAgent(t)
    /\ pc' = [pc EXCEPT ![t] = "retry"]
    /\ UNCHANGED <<envVars, reqVars, toolVars, stop, route>>

\* the agent superstep ends: callModel threw, or its reply joins the channel,
\* shouldContinue picks the edge, the checkpoint is saved and the step budget
\* is checked
AgentFinish(t) ==
    /\ pc[t] = "r_ret"
    /\ driver = "server"
    /\ IF rres[t].kind = "raise"
       THEN /\ TurnFails(t, rres[t].error)
            /\ UNCHANGED <<messages, step, route, ckpts, callsLeft, toolOut>>
       ELSE /\ messages' = [messages EXCEPT ![t] = Reducer(@, <<AIMessage(t, reply[t])>>)]
            /\ route' = [route EXCEPT ![t] = ShouldContinue(messages'[t])]
            /\ ckpts' = Put(thread[t], messages'[t], step[t])
            /\ step' = [step EXCEPT ![t] = @ + 1]
            /\ IF step'[t] > stop[t]
               THEN /\ TurnFails(t, RecursionErr)
                    /\ UNCHANGED <<callsLeft, toolOut>>
               ELSE IF route'[t] = "tools"
               THEN /\ pc' = [pc EXCEPT ![t] = "tools"]
                    /\ callsLeft' = [callsLeft EXCEPT ![t] = PendingCalls(messages'[t])]
                    /\ toolOut' = [toolOut EXCEPT ![t] = <<>>]
                    /\ UNCHANGED <<caught, outcome, response>>
               ELSE /\ TurnReplies(t)
                    /\ UNCHANGED <<callsLeft, toolOut>>
    /\ IF rres[t].kind = "raise" THEN UNCHANGED retryVars ELSE EnterAgent(t)
    /\ UNCHANGED <<envVars, entry, thread, body, now, stop,
                   targs, tcalls, simRes, lastFault, faults>>

\* the tools superstep ends: every tool-result message joins the channel, the
\* checkpoint is saved, the step budget is checked, the agent node is next
ToolsEnd(t) ==
    /\ pc[t] = "tools"
    /\ driver = "server"
    /\ callsLeft[t] = 0
    /\ messages' = [messages EXCEPT ![t] = Reducer(@, toolOut[t])]
    /\ route' = [route EXCEPT ![t] = "none"]
    /\ ckpts' = Put(thread[t], messages'[t], step[t])
    /\ step' = [step EXCEPT ![t] = @ + 1]
    /\ toolOut' = [toolOut EXCEPT ![t] = <<>>]
    /\ IF step'[t] > stop[t]
       THEN /\ TurnFails(t, RecursionErr)
            /\ UNCHANGED retryVars
       ELSE /\ EnterAgent(t)
            /\ pc' = [pc EXCEPT ![t] = "retry"]
            /\ UNCHANGED <<caught, outcome, response>>
    /\ targs' = [targs EXCEPT ![t] = NoArgs]
    /\ tcalls' = [tcalls EXCEPT ![t] = NoCalls]
    /\ simRes' = [simRes EXCEPT ![t] = NoSim]
    /\ lastFault' = [lastFault EXCEPT ![t] = "none"]
    /\ UNCHANGED <<envVars, entry, thread, body, now, stop, callsLeft, faults>>

(* ---------------------------- specifications --------------------------- *)
\* the stores the server is run against: empty, answering by vector search,
\* answering by the text fallback
ServerStores ==
    { {}, {d \in DocUniverse : d.indexed}, {d \in DocUniverse : ~d.indexed} }

ServerInit(c, docs) ==
    /\ driver = "server"
    /\ store \in docs
    /\ now = 0
    /\ ckpts = {}
    /\ maxRetries = DefaultMaxRetries
    /\ cap = c
    /\ overlap = FALSE
    /\ faults = 0
    /\ InitTurns("idle", 0)

Init == ServerInit(Cap(2, MaxRounds, 2, {"desk"}, {DefaultN}, 0), ServerStores)

Next ==
    \E t \in Turns :
        \/ PostChat(t) \/ PostChatThread(t)
        \/ CreateCollection(t) \/ GraphLoad(t) \/ PutInput(t) \/ StartNode(t)
        \/ RetryStep(t) \/ AgentFinish(t)
        \/ ToolStep(t) \/ ToolsEnd(t)

\* two requests handled one after the other against any of the three stores,
\* each turn asking for at most MaxRounds tool rounds of one or two calls, the
\* tool's external calls all succeeding (their failures are in LoopSpec and
\* ToolSpec)
Spec == Init /\ [][Next]_vars

\* one request whose turn may ask for one tool call per reply until the step
\* budget ends, against the store that makes the tool take its longest path,
\* with failures of the tool's external calls
LoopInit ==
    ServerInit(Cap(1, RecursionLimit, 1, {"desk"}, {DefaultN}, MaxToolFaults),
               {{d \in DocUniverse : ~d.indexed}})

LoopSpec == LoopInit /\ [][Next]_vars /\ WF_vars(Next)

\* two requests that may be in flight at the same time (the handlers are async
\* and nothing serialises them), each with a text message, each turn asking
\* for at most one tool call against the store answered by the text fallback,
\* its model calls succeeding or failing rate limited
ConcInit ==
    /\ driver = "server"
    /\ store = {d \in DocUniverse : ~d.indexed}
    /\ now = 0
    /\ ckpts = {}
    /\ maxRetries = 2
    /\ cap = [Cap(2, 1, 1, {"desk"}, {DefaultN}, 0) EXCEPT
                  !.bodies = {b \in Bodies : b.text # ""},
                  !.errors = {RateLimitErr}]
    /\ overlap = TRUE
    /\ faults = 0
    /\ InitTurns("idle", 0)

ConcSpec == ConcInit /\ [][Next]_vars

\* two requests that may be in flight at the same time, each with a non-empty
\* text message, each turn asking for at most one round of one or two tool
\* calls
RaceInit ==
    /\ driver = "server"
    /\ store = {d \in DocUniverse : ~d.indexed}
    /\ now = 0
    /\ ckpts = {}
    /\ maxRetries = 2
    /\ cap = [Cap(2, 1, 2, {"desk"}, {DefaultN}, 0) EXCEPT
                  !.bodies = {b \in Bodies : b.isString /\ b.text # ""},
                  !.errors = {RateLimitErr}]
    /\ overlap = TRUE
    /\ faults = 0
    /\ InitTurns("idle", 0)

RaceSpec == RaceInit /\ [][Next]_vars

(* -------------------------------- claims ------------------------------- *)
AgentPcs == {"retry", "fn", "wait", "r_ret"}
ToolPcs  == {"tools", "t_count", "t_sample", "t_embed", "t_sim", "t_text"}

\* the key sets of the four payload shapes
EmptyShape   == {"error", "message", "count"}
ResultShape  == {"results", "searchType", "query", "count"}
FailureShape == {"error", "details", "query"}

\* the tool call of turn t that ran last has ended
CallEnded(t) == pc[t] = "tools" /\ Len(toolOut[t]) > 0

LastPayload(t) == Last(toolOut[t]).content

\* C1: the edge taken out of the agent node is "tools" exactly when the last
\* message is an assistant message that carries tool-invocation requests: the
\* tools node runs only after such a message, and a turn ends with a reply only
\* after an assistant message without requests.
C1_RouteFollowsToolCalls ==
    \A t \in Turns :
        /\ route[t] = "tools" =>
              Last(messages[t]).role = "ai" /\ Last(messages[t]).calls > 0
        /\ route[t] = "__end__" =>
              Last(messages[t]).role = "ai" /\ Last(messages[t]).calls = 0
        /\ pc[t] \in ToolPcs => route[t] = "tools"
        /\ outcome[t] = "reply" => route[t] = "__end__"

\* a turn that went agent -> tools -> agent -> end
C1_Witness ==
    \E t \in Turns : outcome[t] = "reply" /\ Rounds(t) >= 1

\* C2: in one call of the item lookup tool the similarity search runs at most
\* once; the text search runs exactly once when the similarity search returned
\* no match, and not at all when it returned one or more.
C2_TextSearchOnlyAsFallback ==
    \A t \in Turns :
        /\ tcalls[t].sim <= 1
        /\ tcalls[t].text <= 1
        /\ tcalls[t].text = 1 => simRes[t].done /\ simRes[t].hits = <<>>
        /\ (simRes[t].done /\ simRes[t].hits # <<>>) => tcalls[t].text = 0
        /\ (CallEnded(t) /\ simRes[t].done /\ simRes[t].hits = <<>>) => tcalls[t].text = 1

\* a call on a non-empty store whose similarity search found nothing and
\* whose text search found something
C2_Witness ==
    \E t \in Turns :
        /\ CallEnded(t) /\ store # {}
        /\ simRes[t].done /\ simRes[t].hits = <<>> /\ tcalls[t].text = 1
        /\ DOMAIN LastPayload(t) = ResultShape /\ LastPayload(t).count > 0

\* C3: a failure of any external call of the item lookup tool is returned as
\* the payload {error, details, query}; no tool-result message holds an escaped
\* exception; no turn ends on a tool error; and once the tool results of a turn
\* are appended the turn is in the agent node (or has ended there).
C3_ToolFailuresAreData ==
    \A t \in Turns :
        /\ (CallEnded(t) /\ lastFault[t] # "none") =>
              LastPayload(t) = FailurePayload(ToolErr(lastFault[t]), targs[t].query)
        /\ \A i \in 1..Len(toolOut[t]) :
              DOMAIN toolOut[t][i].content \in {EmptyShape, ResultShape, FailureShape}
        /\ \A i \in 1..Len(messages[t]) :
              messages[t][i].role = "tool" =>
                 DOMAIN messages[t][i].content \in {EmptyShape, ResultShape, FailureShape}
        /\ caught[t].message \notin ToolPoints
        /\ (Len(messages[t]) > 0 /\ Last(messages[t]).role = "tool"
                /\ Last(messages[t]).turn = t) =>
              \/ pc[t] \in AgentPcs
              \/ pc[t] = "done" /\ caught[t] \in ModelErrors \cup {ExhaustedErr}

\* a turn whose tool call failed, whose failure payload is in the transcript,
\* and which got the model's next reply
C3_Witness ==
    \E t \in Turns :
        /\ outcome[t] = "reply"
        /\ \E i \in 1..Len(messages[t]) :
              /\ messages[t][i].role = "tool"
              /\ DOMAIN messages[t][i].content = FailureShape
              /\ messages[t][i].content.details = "textSearch"

\* C4: every payload the item lookup tool returns has one of the four shapes
\* (error-empty, vector result, text result, error-failure); a result payload is
\* tagged "vector" exactly when its results are those of the similarity search
\* and "text" exactly when they are those of the text fallback, and its count
\* is the number of its results.
C4_PayloadShapes ==
    \A t \in Turns :
        /\ \A i \in 1..Len(toolOut[t]) :
              LET p == toolOut[t][i].content
              IN /\ DOMAIN p \in {EmptyShape, ResultShape, FailureShape}
                 /\ DOMAIN p = EmptyShape => p = EmptyPayload
                 /\ DOMAIN p = FailureShape => p.details \in ToolPoints
                 /\ DOMAIN p = ResultShape =>
                       p.searchType \in {"vector", "text"} /\ p.count = Len(p.results)
        /\ (CallEnded(t) /\ DOMAIN LastPayload(t) = ResultShape) =>
              LET p == LastPayload(t)
              IN /\ p.searchType = "vector" <=>
                       (simRes[t].done /\ simRes[t].hits # <<>> /\ tcalls[t].text = 0)
                 /\ p.searchType = "vector" => p.results = simRes[t].hits
                 /\ p.searchType = "text" <=> tcalls[t].text = 1
                 /\ p.searchType = "text" =>
                       p.results = TextSearch(store, targs[t].query, targs[t].n)
                 /\ p.query = targs[t].query

\* the driver has seen a text result and, before it, a vector-less failure
C4_Witness ==
    \E t \in Turns :
        /\ CallEnded(t) /\ Len(toolOut[t]) = 2
        /\ DOMAIN toolOut[t][1].content = FailureShape
        /\ DOMAIN LastPayload(t) = ResultShape
        /\ LastPayload(t).searchType = "text" /\ LastPayload(t).count = 1

\* C5: against an empty collection the item lookup tool makes no embedding,
\* similarity-search or text-search call; whenever the document count is read
\* (as zero) it returns the count-0 error payload, so two calls against the
\* unchanged empty store return the same payload.
C5_EmptyStoreShortCircuits ==
    store = {} =>
        \A t \in Turns :
            /\ tcalls[t] = NoCalls
            /\ pc[t] \notin {"t_sample", "t_embed", "t_sim", "t_text"}
            /\ (CallEnded(t) /\ lastFault[t] = "none") =>
                  LastPayload(t) = EmptyPayload /\ LastPayload(t).count = 0
            /\ \A i, j \in 1..Len(toolOut[t]) :
                  (DOMAIN toolOut[t][i].content # FailureShape
                      /\ DOMAIN toolOut[t][j].content # FailureShape) =>
                     toolOut[t][i].content = toolOut[t][j].content

\* two calls against the empty store, both answered with the count-0 error
C5_Witness ==
    /\ store = {}
    /\ \E t \in Turns :
          /\ CallEnded(t) /\ Len(toolOut[t]) = 2
          /\ toolOut[t][1].content = EmptyPayload
          /\ toolOut[t][2].content = EmptyPayload

\* every execution of fn in the current retryWithBackoff call of turn t was
\* rate limited
RateLimitedOnly(t) == \A i \in 1..Len(outcomes[t]) : outcomes[t][i] = "429"

\* the sleeps of the current call follow min(1000 * 2^k, 30000) after the
\* rate-limited failure of attempt k, and a call that only met rate-limit
\* failures ends by throwing
C6_DelaysAndFailure ==
    \A t \in Turns :
        /\ \A k \in 1..Len(waits[t]) :
              /\ waits[t][k] = Min(1000 * 2^k, 30000)
              /\ waits[t][k] <= 30000
              /\ outcomes[t][k] = "429"
        /\ (pc[t] = "r_ret" /\ RateLimitedOnly(t)) => rres[t].kind = "raise"

\* C6: retryWithBackoff on an operation that always fails rate limited sleeps
\* min(1000 * 2^k, 30000) after the failure of attempt k, never more than
\* 30000, and the call ends, with a failure, instead of retrying forever.
C6_BackoffThenFailure ==
    /\ []C6_DelaysAndFailure
    /\ \A t \in Turns : (pc[t] = "retry") ~> (pc[t] = "r_ret")

\* a call that met only rate-limit failures, slept the capped delay and threw
C6_Witness ==
    \E t \in Turns :
        /\ pc[t] = "r_ret" /\ RateLimitedOnly(t) /\ rres[t].kind = "raise"
        /\ Len(waits[t]) >= 5 /\ Last(waits[t]) = 30000 /\ waits[t][1] = 2000

\* C7: an execution of fn that fails with anything but the rate-limited
\* condition is the last one of the call: retryWithBackoff throws that very
\* error at once, without a sleep and without another execution.
C7_OtherErrorsFailAtOnce ==
    \A t \in Turns :
        \A i \in 1..Len(outcomes[t]) :
            outcomes[t][i] \notin {"ok", "429"} =>
                /\ i = Len(outcomes[t])
                /\ Len(waits[t]) = i - 1
                /\ pc[t] \in {"r_ret", "done"}
                /\ rres[t].kind = "raise"
                /\ rres[t].error \in {AuthErr, PlainErr}
                /\ rres[t].error.status = outcomes[t][i]

\* an authentication failure on the second attempt, after one rate-limit
\* failure and its single sleep
C7_Witness ==
    \E t \in Turns :
        /\ outcomes[t] = <<"429", "401">>
        /\ rres[t] = Raised(AuthErr) /\ Len(waits[t]) = 1

\* the Agent and Tools supersteps turn t has executed: one per assistant
\* message, one per answered round of tool calls
NodeSteps(t) ==
    Cardinality({i \in 1..Len(messages[t]) :
        /\ messages[t][i].turn = t
        /\ \/ messages[t][i].role = "ai"
           \/ messages[t][i].role = "tool" /\ messages[t][i].call = 1})

\* the graph of turn t has started
Loaded(t) == stop[t] > 0

\* every reply of the model in turn t asked for a tool call
AlwaysAsksTools(t) ==
    \A i \in 1..Len(messages[t]) :
        (messages[t][i].turn = t /\ messages[t][i].role = "ai") => messages[t][i].calls > 0

C8_Bounded ==
    \A t \in Turns :
        /\ NodeSteps(t) <= RecursionLimit
        /\ caught[t] = RecursionErr => NodeSteps(t) = RecursionLimit
        /\ (Finished(t) /\ Loaded(t)) =>
              \/ outcome[t] = "reply" /\ Last(messages[t]).role = "ai"
                    /\ Last(messages[t]).calls = 0
              \/ caught[t] = RecursionErr
              \/ caught[t] \in {AuthErr, PlainErr, ExhaustedErr}
        /\ (Finished(t) /\ Loaded(t) /\ AlwaysAsksTools(t)
               /\ caught[t] \notin {AuthErr, PlainErr, ExhaustedErr}) =>
              caught[t] = RecursionErr

C9_AppendOnly ==
    [][\A t \in Turns : IsPrefix(messages[t], messages'[t])]_vars

\* a second turn that has appended a user message, a reply asking for a tool
\* call, the tool result and the final reply after the messages of the first
C9_Witness ==
    /\ Len(messages[1]) >= 2
    /\ Len(messages[2]) >= Len(messages[1]) + 4
    /\ IsPrefix(messages[1], messages[2])
    /\ outcome[2] = "reply"

\* C10: a turn that follows a finished turn on the same thread starts from
\* exactly the messages that turn saved, in order, and appends its user message
\* right after them.
C10_CheckpointRoundTrip ==
    \A u, t \in Turns :
        (u < t /\ thread[u] = thread[t] /\ Finished(u) /\ Loaded(t)) =>
            /\ IsPrefix(messages[u], messages[t])
            /\ GetTuple(thread[t]).messages = messages[t]
            /\ pc[t] \notin {"input", "start"} =>
                  /\ Len(messages[t]) > Len(messages[u])
                  /\ messages[t][Len(messages[u]) + 1] = HumanMessage(t, body[t].text)

\* a first turn of four messages (user, reply with a tool call, tool result,
\* reply) and a second turn on its thread that has appended its user message
C10_Witness ==
    /\ outcome[1] = "reply" /\ Len(messages[1]) = 4
    /\ messages[1][3].role = "tool"
    /\ thread[2] = thread[1]
    /\ Len(messages[2]) >= 5
    /\ SubSeq(messages[2], 1, 4) = messages[1]
    /\ messages[2][5].role = "human" /\ messages[2][5].turn = 2

\* callAgent of turn t threw
Failed(t) == Finished(t) /\ outcome[t] \in {"rate_limit", "auth", "agent_failed"}

\* C11: once a turn has failed fatally, the latest checkpoint of its thread
\* holds no message of that turn, its user message included.
C11_FailedTurnLeavesNoTrace ==
    \A t \in Turns :
        Failed(t) =>
            LET saved == GetTuple(thread[t]).messages
            IN \A i \in 1..Len(saved) : saved[i].turn # t

\* the turns in flight or finished on the thread of turn t, t apart
Sharing(t) == {u \in Turns \ {t} : pc[u] # "idle" /\ thread[u] = thread[t]}

C12_Isolated ==
    /\ \A c \in ckpts : \A i \in 1..Len(c.messages) :
          thread[c.messages[i].turn] = c.thread
    /\ \A t \in Turns : \A i \in 1..Len(messages[t]) :
          thread[messages[t][i].turn] = thread[t]
    /\ \A t \in Turns :
          (Loaded(t) /\ Sharing(t) = {}) =>
              /\ \A i \in 1..Len(messages[t]) : messages[t][i].turn = t
              /\ GetTuple(thread[t]).messages = messages[t]
              /\ outcome[t] = "reply" => Last(messages[t]) = AIMessage(t, 0)

\* C12: turns on different threads do not touch each other: a checkpoint of a
\* thread holds only messages of turns on that thread, a turn's transcript
\* holds only such messages, a turn alone on its thread has the transcript,
\* the checkpoint and the reply it has when run alone, and a step of a turn
\* leaves the checkpoints of every other thread as they are.
C12_ThreadsAreIndependent ==
    /\ []C12_Isolated
    /\ [][\A t \in Turns :
            pc'[t] # pc[t] =>
                {c \in ckpts' : c.thread # thread'[t]}
                    = {c \in ckpts : c.thread # thread'[t]}]_vars

\* two finished turns on different threads whose checkpoint writes alternated,
\* each thread holding the four messages of its own turn
C12_Witness ==
    /\ thread[1] # thread[2]
    /\ outcome[1] = "reply" /\ outcome[2] = "reply"
    /\ Len(GetTuple(thread[1]).messages) = 4 /\ Len(GetTuple(thread[2]).messages) = 4
    /\ GetTuple(thread[1]).messages = messages[1]
    /\ GetTuple(thread[2]).messages = messages[2]
    /\ \E a, b, c \in ckpts :
          /\ a.thread = thread[1] /\ b.thread = thread[2] /\ c.thread = thread[1]
          /\ a.id < b.id /\ b.id < c.id

\* the message of the request of turn t is not a non-empty text
InvalidBody(t) == pc[t] # "idle" /\ (~body[t].isString \/ body[t].text = "")

\* C13: a request whose message is missing, not a string or empty never
\* starts the graph, leaves nothing in the checkpoints and, unless the
\* database fails first, is answered with the invalid-input response.
C13_InvalidInputRejected ==
    \A t \in Turns :
        InvalidBody(t) =>
            /\ ~Loaded(t)
            /\ \A c \in ckpts : c.thread = thread[t] => \A i \in 1..Len(c.messages) :
                  c.messages[i].turn # t
            /\ (Finished(t) /\ caught[t] # DbErr) => response[t] = "400"

\* C14: a retryWithBackoff call with maxRetries = N never executes fn more
\* than N - 1 times and never runs an attempt numbered N; when every
\* execution fails rate limited it executes fn exactly N - 1 times (not at
\* all for N = 1) and then throws the max-retries error.
C14_ExecutesOneLessThanMaxRetries ==
    \A t \in Turns :
        /\ Len(outcomes[t]) <= maxRetries - 1
        /\ pc[t] = "fn" => attempt[t] < maxRetries
        /\ (pc[t] = "r_ret" /\ RateLimitedOnly(t)) =>
              /\ Len(outcomes[t]) = maxRetries - 1
              /\ rres[t] = Raised(ExhaustedErr)
              /\ maxRetries = 1 => outcomes[t] = <<>>

\* a call with maxRetries = 4 that failed after exactly three rate-limited
\* executions
C14_Witness ==
    \E t \in Turns :
        /\ maxRetries = 4 /\ pc[t] = "r_ret"
        /\ outcomes[t] = <<"429", "429", "429">>
        /\ rres[t] = Raised(ExhaustedErr)

\* C15: a retryWithBackoff call that fails has not slept after the failure
\* of its last executed attempt: it has slept fewer times than it has executed
\* fn.
C15_NoWaitBeforeFailing ==
    \A t \in Turns :
        (pc[t] = "r_ret" /\ rres[t].kind = "raise" /\ Len(outcomes[t]) > 0) =>
            Len(waits[t]) < Len(outcomes[t])

\* message i of msgs was appended by turn t
Own(t, msgs, i) == msgs[i].turn = t

\* the assistant message at i is immediately followed by its tool results,
\* one per tool call and in the order of the calls
AnsweredAt(msgs, i) ==
    LET k == msgs[i].calls
    IN /\ Len(msgs) >= i + k
       /\ \A j \in 1..k :
             /\ msgs[i + j].role = "tool"
             /\ msgs[i + j].call = j
             /\ msgs[i + j].turn = msgs[i].turn

\* C16 (amended): among the messages a turn has appended, every assistant
\* message with k tool calls is immediately followed by its k tool results and
\* then by an assistant message, unless it is the last message and its Tools
\* step has not finished (it is running, or the loop limit cut it off); when
\* control is at the Agent node nothing is unanswered; the turn's messages go
\* user -> assistant (+ tool calls) -> tool results -> assistant.
C16_ToolCallsAnswered ==
    \A t \in Turns :
        LET m == messages[t]
        IN \A i \in 1..Len(m) :
              Own(t, m, i) =>
                 /\ (m[i].role = "ai" /\ m[i].calls > 0) =>
                       \/ /\ AnsweredAt(m, i)
                          /\ Len(m) > i + m[i].calls =>
                                /\ m[i + m[i].calls + 1].role = "ai"
                                /\ Own(t, m, i + m[i].calls + 1)
                       \/ /\ i = Len(m)
                          /\ pc[t] \in ToolPcs \/ caught[t] = RecursionErr
                 /\ (m[i].role = "ai" /\ m[i].calls = 0) => i = Len(m)
                 /\ m[i].role = "tool" =>
                       /\ i > m[i].call
                       /\ m[i - m[i].call].role = "ai"
                       /\ m[i - m[i].call].calls >= m[i].call
                       /\ Own(t, m, i - m[i].call)
                 /\ m[i].role = "human" =>
                       /\ i > 1 => ~Own(t, m, i - 1)
                       /\ i < Len(m) => m[i + 1].role = "ai" /\ Own(t, m, i + 1)
                 /\ (pc[t] \in AgentPcs /\ i = Len(m)) => m[i].role \in {"human", "tool"}

\* a finished turn whose assistant message with two tool calls is followed by
\* the two tool results and the final reply
C16_Witness ==
    \E t \in Turns :
        /\ outcome[t] = "reply"
        /\ \E i \in 1..Len(messages[t]) :
              /\ Own(t, messages[t], i)
              /\ messages[t][i].role = "ai" /\ messages[t][i].calls = 2
              /\ AnsweredAt(messages[t], i)
              /\ Len(messages[t]) = i + 3
              /\ Last(messages[t]) = AIMessage(t, 0)

\* C16 as claimed, for requests that name their thread: in every transcript
\* outside a running Tools step, each assistant message with k tool calls is
\* immediately followed by its k tool results.
C16_AsClaimed ==
    \A t \in Turns :
        (pc[t] \notin ToolPcs /\ \A u \in Turns : entry[u] # "POST /chat") =>
            \A i \in 1..Len(messages[t]) :
                (messages[t][i].role = "ai" /\ messages[t][i].calls > 0) =>
                    AnsweredAt(messages[t], i)

\* the messages turn t has appended itself
OwnMessages(t) ==
    {messages[t][i] : i \in {j \in 1..Len(messages[t]) : Own(t, messages[t], j)}}

\* the messages of the latest checkpoint of thread th
Stored(th) ==
    LET saved == GetTuple(th).messages
    IN {saved[i] : i \in 1..Len(saved)}

\* C17: checkpoint writes are last-write-wins and nothing makes a turn wait
\* for another one on its thread: whenever a turn writes a checkpoint, the
\* latest checkpoint of its thread becomes that turn's own transcript,
\* whatever another turn on the thread has stored since this one loaded.
C17_LastWriteWins ==
    [][\A t \in Turns :
          (pc'[t] # pc[t] /\ ckpts' # ckpts) =>
              /\ \E c \in ckpts' \ ckpts :
                    /\ c.thread = thread[t] /\ c.messages = messages'[t]
                    /\ \A d \in ckpts' : d.thread = c.thread => d.id <= c.id
              /\ \A u \in Turns \ {t} : pc'[u] = pc[u] /\ messages'[u] = messages[u]]_vars

\* two turns on one thread have both replied, and the latest checkpoint of the
\* thread holds none of the messages one of them appended
C17_Witness ==
    \E t, u \in Turns :
        /\ t # u /\ thread[t] = thread[u]
        /\ outcome[t] = "reply" /\ outcome[u] = "reply"
        /\ Cardinality(OwnMessages(u)) >= 2
        /\ OwnMessages(u) \cap Stored(thread[u]) = {}
        /\ OwnMessages(t) \subseteq Stored(thread[t])

\* C18: a turn whose model call failed rate limited on every execution until
\* retryWithBackoff gave up ends in the rate-limit failure of callAgent.
C18_ExhaustionSurfacesRateLimit ==
    \A t \in Turns :
        (Failed(t) /\ rres[t].kind = "raise"
            /\ Len(outcomes[t]) > 0 /\ RateLimitedOnly(t)) =>
            outcome[t] = "rate_limit"

\* C19: a request whose handler has finished has been sent a response.
C19_EveryRequestAnswered ==
    \A t \in Turns : Finished(t) => response[t] # "none"

\* the handler of turn t is running
InFlight(t) == pc[t] \notin {"idle", "done"}

\* C20: two requests to POST /chat that are in flight together never have
\* the same thread identifier.
C20_FreshThreadIds ==
    \A t, u \in Turns :
        (t # u /\ entry[t] = "POST /chat" /\ entry[u] = "POST /chat"
            /\ InFlight(t) /\ InFlight(u)) =>
            thread[t] # thread[u]

====
